---------------------------- MODULE Spec2Model ----------------------------
(***************************************************************************)
(* Model of the two simulation engines of monte-carlo-3d-app:              *)
(*   - the Monte Carlo accumulator of the application class                *)
(*     (MonteCarloSimulation: batch spawn, windowed eviction, statistics), *)
(*   - the ball integrator EnhancedBallPhysics (ground contact, landing),  *)
(*   - the one-dimensional elastic CollisionSimulation.                    *)
(*                                                                         *)
(* Numbers.  The program computes in IEEE doubles.  The model uses         *)
(* integers in fixed units:                                                *)
(*   statistics : piEstimate in 1/1000, error in 1/100 percent;            *)
(*   balls      : millimetres, millimetres per second, milliseconds;       *)
(*   collisions : velocities in 1/VScale m/s, time in microseconds,        *)
(*                positions in TimeQuantum/VScale micrometres, so that     *)
(*                position += velocity * dt is exact for every dt that is  *)
(*                a multiple of TimeQuantum.                               *)
(* For the mass ratios 1, 3 and 7 every velocity of a run is a multiple of *)
(* 1/VScale, so the collision arithmetic of the model is exact (and so is  *)
(* the program's: the values are dyadic).  For mass ratio 100 the division *)
(* by m1 + m2 = 101 is rounded to the nearest unit.                        *)
(***************************************************************************)
EXTENDS Integers, Sequences, FiniteSets, TLC

VARIABLES
    \* ---- application class MonteCarloSimulation (src/unnamed/part_001)
    balls,              \* this.balls: the active set, oldest first
    state,              \* this.state: "stopped" | "running" | "paused"
    mode,               \* this.mode: "monte_carlo" | "collision"
    lastDropTime,       \* this.lastDropTime (ms)
    totalBallsDropped,  \* cumulative landed count of evicted balls
    totalInsideBalls,   \* cumulative landed-and-inside count of evicted balls
    batchSize,          \* this.config.batchSize
    ballCounter,        \* BallFactory.ballCounter
    uiStats,            \* the statistics last handed to uiManager.updateStats
    currentTime,        \* timestamp of the last animation frame (ms)
    shadow,             \* history variable: every ball spawned since the last
                        \* reset, as it would be had it never been evicted
    evicted,            \* history variable: the balls removed by eviction
    lastSpawnTime,      \* history variable: the time of the latest spawn, -1
                        \* before the first; reset leaves it as it is
                        \* since the last reset, as they were when removed
    \* ---- EnhancedBallPhysics (src/src/physics/EnhancedBallPhysics.ts)
    physBalls,          \* the balls handed to update(): hasLanded,
                        \* mesh.position and velocity of each
    physTime,           \* this.time: the sum of the deltaTime of all updates (ms)
    landedUpdates,      \* history variable: update() calls made while a ball
                        \* of the list had already landed
    \* ---- CollisionSimulation (src/src/simulation/CollisionSimulation.ts)
    col,                \* the fields of the CollisionSimulation object
    now,                \* Date.now() (ms)
    subLeft,            \* iterations left in the sub-step loop of update();
                        \* 0 when no update() call is in progress
    subDt,              \* dt of the update() call in progress (microseconds)
    lastOp,             \* history variable: the last method of the
                        \* CollisionSimulation that was called
    \* ---- THREE.Scene of the SceneManager, shared by every component
    scene               \* the objects added to the scene and not removed

mcVars == <<balls, state, mode, lastDropTime, totalBallsDropped,
            totalInsideBalls, batchSize, ballCounter, uiStats, currentTime,
            shadow, evicted, lastSpawnTime>>
physVars == <<physBalls, physTime, landedUpdates>>
colVars == <<col, now, subLeft, subDt, lastOp>>

vars == <<mcVars, physVars, colVars, scene>>

-----------------------------------------------------------------------------
(* Bounds of the model.                                                    *)

\* the eviction ceiling (5000 in the program) and the eviction batch (1000 in
\* the program), scaled down so that eviction happens within the bounds
EvictCeiling == 2
EvictCount == 1
\* largest batch size the slider callback delivers in the model
MaxBatch == 3
\* no spawn once the factory's counter has reached this many balls
MaxSpawned == 4
\* last animation-frame timestamp considered
MaxTime == 1300
\* the batch size before the slider is first moved (5 in the program)
DefaultBatchSize == 1
\* the ball integrator is followed until its clock reaches this (ms)
MaxPhysTime == 250
\* balls handed to the ball integrator
MaxPhysBalls == 1

-----------------------------------------------------------------------------
(* Helpers.                                                                *)

Min(a, b) == IF a <= b THEN a ELSE b
Abs(a) == IF a >= 0 THEN a ELSE -a

\* n / d rounded to the nearest integer (d > 0)
RoundDiv(n, d) == (2 * n + d) \div (2 * d)

\* Array.prototype.filter(...).length
CountIf(s, P(_)) == Cardinality({i \in DOMAIN s : P(s[i])})

\* the elements of s from position from on (Array.prototype.splice leaves them)
Drop(s, n) == IF n >= Len(s) THEN <<>> ELSE SubSeq(s, n + 1, Len(s))
Take(s, n) == SubSeq(s, 1, Min(n, Len(s)))


-----------------------------------------------------------------------------
(* Program constants of the application class.                             *)

STOPPED == "stopped"
RUNNING == "running"
PAUSED == "paused"
MONTE_CARLO == "monte_carlo"
COLLISION == "collision"

DropInterval == 500
ConfigMaxBalls == -1

\* Math.PI in 1/1000
PiMilli == 3142

\* timestamps handed to the frame callback: the gap to the previous frame
FrameGaps == {250, 501}
BatchSizes == 1..MaxBatch

-----------------------------------------------------------------------------
(* BallFactory and the Monte Carlo accumulator.                            *)

\* BallFactory.createBall: a new ball is not landed, carries the inside flag
\* computed from its sampled (x, z), and takes its id from the counter
CreateBall(counter, inside) ==
    [id |-> counter, isInside |-> inside, hasLanded |-> FALSE]

\* a batch whose balls all get the id of the first
SpawnBatchOneId(bs, counter, n, ins) ==
    bs \o [i \in 1..n |-> CreateBall(counter, ins[i])]

\* the loop of updateMonteCarloSimulation that pushes batchSize new balls;
\* ins[i] is the inside flag of the i-th sampled position
SpawnBatch(bs, counter, n, ins) ==
    bs \o [i \in 1..n |-> CreateBall(counter + i - 1, ins[i])]

\* a fold that counts an inside ball whether or not it has landed
EvictFoldInsideUnlanded(removed, tot, ins) ==
    [total  |-> tot + CountIf(removed, LAMBDA b : b.hasLanded),
     inside |-> ins + CountIf(removed, LAMBDA b : b.isInside)]

\* the forEach over the removed balls: a landed ball adds 1 to the cumulative
\* total and, if inside, 1 to the cumulative inside count
EvictFold(removed, tot, ins) ==
    [total  |-> tot + CountIf(removed, LAMBDA b : b.hasLanded),
     inside |-> ins + CountIf(removed, LAMBDA b : b.hasLanded /\ b.isInside)]

\* an eviction test that already fires at the ceiling
NeedsEvictionAtCeiling(bs) == Len(bs) >= EvictCeiling

\* the eviction branch: balls.splice(0, EvictCount) once the active set is
\* larger than the ceiling
NeedsEviction(bs) == Len(bs) > EvictCeiling

\* a test of the drop interval that already fires when the interval has
\* just passed
DropDueAtInterval(ct) ==
    /\ ct - lastDropTime >= DropInterval
    /\ (ConfigMaxBalls = -1 \/ Len(balls) < ConfigMaxBalls)

\* the test at the head of updateMonteCarloSimulation
DropDue(ct) ==
    /\ ct - lastDropTime > DropInterval
    /\ (ConfigMaxBalls = -1 \/ Len(balls) < ConfigMaxBalls)

\* updateMonteCarloSimulation(currentTime): the new values of balls,
\* lastDropTime, ballCounter and the two cumulative counters, with the balls
\* it created (spawned) and the balls it removed (removed)
UpdateMonteCarloSimulation(ct, ins) ==
    IF DropDue(ct)
    THEN LET spawned == SpawnBatch(balls, ballCounter, batchSize, ins)
             removed == IF NeedsEviction(spawned)
                        THEN Take(spawned, EvictCount) ELSE <<>>
             kept    == IF NeedsEviction(spawned)
                        THEN Drop(spawned, EvictCount) ELSE spawned
             folded  == EvictFold(removed, totalBallsDropped, totalInsideBalls)
         IN  [balls |-> kept, lastDropTime |-> ct,
              ballCounter |-> ballCounter + batchSize,
              total |-> folded.total, inside |-> folded.inside,
              spawned |-> SubSeq(spawned, Len(balls) + 1, Len(spawned)),
              removed |-> removed]
    ELSE [balls |-> balls, lastDropTime |-> lastDropTime,
          ballCounter |-> ballCounter,
          total |-> totalBallsDropped, inside |-> totalInsideBalls,
          spawned |-> <<>>, removed |-> <<>>]

\* EnhancedBallPhysics.update as the accumulator sees it: a landed ball is
\* skipped, a ball in flight either stays in flight or reaches
\* handleGroundCollision's landing branch in this tick.  L is the set of ids
\* of the balls that land in this tick.
LandBalls(bs, L) ==
    [i \in DOMAIN bs |->
        IF ~bs[i].hasLanded /\ bs[i].id \in L
        THEN [bs[i] EXCEPT !.hasLanded = TRUE] ELSE bs[i]]

\* statistics that count every active ball, landed or not
ComputeStatsCountsInFlight(bs, tot, ins) ==
    LET totalBalls  == tot + Len(bs)
        insideBalls == ins + CountIf(bs, LAMBDA b : b.isInside)
        piEstimate  == IF totalBalls > 0
                       THEN (4000 * insideBalls) \div totalBalls ELSE 0
        error       == IF totalBalls > 0
                       THEN ((piEstimate - PiMilli) * 10000) \div PiMilli ELSE 0
    IN  [totalBalls |-> totalBalls, insideBalls |-> insideBalls,
         piEstimate |-> piEstimate, error |-> error]

\* the statistics of updateStats / getCurrentStats
ComputeStats(bs, tot, ins) ==
    LET currentLandedBalls == CountIf(bs, LAMBDA b : b.hasLanded)
        currentInsideBalls == CountIf(bs, LAMBDA b : b.hasLanded /\ b.isInside)
        totalBalls  == tot + currentLandedBalls
        insideBalls == ins + currentInsideBalls
        piEstimate  == IF totalBalls > 0
                       THEN (4000 * insideBalls) \div totalBalls ELSE 0
        error       == IF totalBalls > 0
                       THEN ((piEstimate - PiMilli) * 10000) \div PiMilli ELSE 0
    IN  [totalBalls |-> totalBalls, insideBalls |-> insideBalls,
         piEstimate |-> piEstimate, error |-> error]

GetCurrentStats == ComputeStats(balls, totalBallsDropped, totalInsideBalls)

\* ids of the balls of bs that are still in flight
InFlight(bs) == {bs[i].id : i \in {j \in DOMAIN bs : ~bs[j].hasLanded}}
Ids(bs) == {bs[i].id : i \in DOMAIN bs}


-----------------------------------------------------------------------------
(* The scene: one THREE.Scene, handed to every component that draws.       *)

\* an object of the scene: the component that added it, its THREE class
\* (a GridHelper and a LineSegments are Lines), and what it is.  Objects
\* added to another object (the edges of the wall, the labels of P and Q)
\* come and go with their parent and are not listed; nor are the rings of
\* createCollisionEffect, which a timer removes after a second.
SceneObject(owner, type, name, id) ==
    [owner |-> owner, type |-> type, name |-> name, id |-> id]

Desks == 1..6
LegOffsets == 1..4

SceneManagerObjects ==
    {SceneObject("SceneManager", "Light", "ambientLight", 0),
     SceneObject("SceneManager", "Light", "sunLight", 0),
     SceneObject("SceneManager", "Line", "gridHelper", 0)}

ClassroomObjects ==
    {SceneObject("ClassroomBuilder", "Mesh", n, 0) :
        n \in {"floor", "backWall", "blackboard", "tray"}}
    \cup {SceneObject("ClassroomBuilder", "Mesh", "deskTop", d) : d \in Desks}
    \cup {SceneObject("ClassroomBuilder", "Mesh", "leg", 4 * (d - 1) + l) :
              d \in Desks, l \in LegOffsets}

CircleAreaObjects ==
    {SceneObject("CircleArea", "Mesh", "circleOutline", 0),
     SceneObject("CircleArea", "Mesh", "circleMesh", 0),
     SceneObject("CircleArea", "Line", "square", 0),
     SceneObject("CircleArea", "Mesh", "xLabel", 0),
     SceneObject("CircleArea", "Mesh", "zLabel", 0)}

BlackboardObjects ==
    {SceneObject("BlackboardDisplay", "Mesh", "blackboard-text", 0)}

BallMesh(id) == SceneObject("BallFactory", "Mesh", "ball", id)
BallMeshes(ids) == {BallMesh(id) : id \in ids}

\* what createWall, createFloor, createObjects and createDebugDisplay add
CollisionObjects ==
    {SceneObject("CollisionSimulation", "Mesh", "wall", 0),
     SceneObject("CollisionSimulation", "Sprite", "wallLabel", 0),
     SceneObject("CollisionSimulation", "Mesh", "floor", 0),
     SceneObject("CollisionSimulation", "Line", "floorGrid", 0),
     SceneObject("CollisionSimulation", "Mesh", "Q", 0),
     SceneObject("CollisionSimulation", "Mesh", "P", 0),
     SceneObject("CollisionSimulation", "Sprite", "velocityText", 0)}

\* the scene once the application has been constructed
ConstructedScene ==
    SceneManagerObjects \cup ClassroomObjects \cup CircleAreaObjects
        \cup BlackboardObjects

\* the scene part of CollisionSimulation.clear(): traverse collects every
\* Mesh, Line and Sprite, and each is removed
SceneClear(sc) == {o \in sc : o.type \notin {"Mesh", "Line", "Sprite"}}

\* the scene part of initialize(): clear(), then the simulator's own objects
SceneInitialize(sc) == SceneClear(sc) \cup CollisionObjects

-----------------------------------------------------------------------------
(* CollisionSimulation: units and program constants.                       *)

\* velocity units per m/s, and the time quantum in microseconds
VScale == 1024
TimeQuantum == 50
\* position units per millimetre
PosPerMilli == (VScale * 1000) \div TimeQuantum
Mm(x) == x * PosPerMilli

\* the null object reference: no body has mass 0
Null == [x |-> 0, v |-> 0, mass |-> 0]

PRadius == Mm(150)
QRadius == Mm(150)
WallPos == Mm(-2950)
Separation == Mm(10)
WallNudge == Mm(1)
QStartPos == Mm(-2000)
PStartPos == Mm(1000)
QuietPeriod == 3000
DefaultMassRatio == 100

\* mass ratios offered to initialize / setMassRatio
MassRatios == {1, 3, 7}
\* deltaTime of the render loop, in microseconds
FrameTime == 16670
\* frame times handed to update: a frame of the render loop, and a frame
\* twice as long
DeltaTimes == {FrameTime, 2 * FrameTime}
\* the driver stops calling update once P moves right and is further right
\* than this (mm)
MaxPosMm == 0
\* Date.now() advances by ClockStep, at most MaxClockTicks times
ClockStep == 3001
MaxClockTicks == 1
\* the driver stops calling update once this many collisions were counted
MaxCollisions == 40
\* mass ratios of the runs that are followed from initialize to their end
RunMassRatios == {1, 100}
\* masses and velocities handed to the collision formulas alone
ElasticMasses == {1, 2, 3, 100}
ElasticVelocities == -2..2

\* floor(pi^2 * m), with pi^2 taken as 9.869604 and m split at 1000 so that
\* no product leaves 32 bits; the floors lose less than 2, which matters only
\* to an m with a perfect square that close below pi^2 * m
PiSquaredTimes(m) ==
    9 * m + (869604 * (m \div 1000)) \div 1000
          + (869604 * (m % 1000)) \div 1000000

\* Math.floor(Math.PI * Math.sqrt(m)): the largest n with n^2 <= pi^2 * m
ExpectedCollisions(m) ==
    LET piSquaredM == PiSquaredTimes(m)
    IN  CHOOSE n \in 0..Min(4 * m, 4000) :
            /\ n * n <= piSquaredM
            /\ (n + 1) * (n + 1) > piSquaredM

\* An energy is kept in two parts, e = big * EnergyBase + small, in units
\* of half a squared velocity unit: a mass of 10^6 at 2 m/s does not fit
\* one 32-bit integer.
EnergyBase == 2048
ZeroEnergy == [big |-> 0, small |-> 0]
EnergyValue(e) == e.big * EnergyBase + e.small

\* mass * speed^2
EnergyTimes(mass, squaredSpeed) ==
    LET lowProduct == mass * (squaredSpeed % EnergyBase)
    IN  [big |-> mass * (squaredSpeed \div EnergyBase)
                     + lowProduct \div EnergyBase,
         small |-> lowProduct % EnergyBase]

EnergyPlus(a, b) ==
    [big |-> a.big + b.big + (a.small + b.small) \div EnergyBase,
     small |-> (a.small + b.small) % EnergyBase]

\* e / e0 < 0.01, that is 100 * e < e0
BelowHundredth(e, e0) ==
    LET q == e0.big \div 100
        rest == (e0.big % 100) * EnergyBase + e0.small
    IN  \/ e.big < q
        \/ e.big = q /\ 100 * e.small < rest

\* 0.5*mP*vP^2 + 0.5*mQ*vQ^2
KineticEnergy(P, Q) ==
    EnergyPlus(EnergyTimes(P.mass, P.v * P.v), EnergyTimes(Q.mass, Q.v * Q.v))

\* the constructor.  collisionHistory gets one entry per counted collision;
\* the program pushes the time stamp, the model the handler that pushed it
\* ("PQ", "QWall" or "PWall").
NewCollisionSimulation ==
    [objectP |-> Null, objectQ |-> Null, collisionCount |-> 0,
     massRatio |-> DefaultMassRatio, isRunning |-> FALSE,
     expectedCollisions |-> 0, lastCollisionTime |-> 0,
     initialEnergy |-> ZeroEnergy, collisionHistory |-> <<>>]

HasObjects(c) == c.objectP # Null /\ c.objectQ # Null

\* clear(): every object reference dropped, counters zeroed
Clear(c) ==
    [c EXCEPT !.objectP = Null, !.objectQ = Null, !.collisionCount = 0,
              !.lastCollisionTime = 0, !.initialEnergy = ZeroEnergy,
              !.collisionHistory = <<>>]

\* createObjects() followed by calculateInitialEnergy()
CreateObjects(c) ==
    LET initialVelocity == IF c.massRatio = 1 THEN -1 ELSE -2
        Q == [x |-> QStartPos, v |-> 0, mass |-> 1]
        P == [x |-> PStartPos, v |-> initialVelocity * VScale,
              mass |-> c.massRatio]
    IN  [c EXCEPT !.objectQ = Q, !.objectP = P,
                  !.initialEnergy = KineticEnergy(P, Q)]

\* initialize(massRatio) that leaves expectedCollisions as it was
InitializeKeepsExpected(c, m) ==
    CreateObjects([Clear(c) EXCEPT !.massRatio = m, !.collisionCount = 0])

\* initialize(massRatio)
Initialize(c, m) ==
    CreateObjects([Clear(c) EXCEPT !.massRatio = m, !.collisionCount = 0,
                                   !.expectedCollisions = ExpectedCollisions(m)])

\* start(), stop(), reset(), setMassRatio(ratio)
Start(c, t) == [c EXCEPT !.isRunning = TRUE, !.lastCollisionTime = t]
Stop(c) == [c EXCEPT !.isRunning = FALSE]
Reset(c) == Initialize(c, c.massRatio)
SetMassRatio(c, ratio) == Reset([c EXCEPT !.massRatio = ratio])

\* isComplete() that does not look at isRunning
IsCompleteIgnoresRunning(c) == c.collisionCount >= c.expectedCollisions

\* isComplete(), getExpectedCollisions()
IsComplete(c) == ~c.isRunning /\ c.collisionCount >= c.expectedCollisions
GetExpectedCollisions(c) == c.expectedCollisions


-----------------------------------------------------------------------------
(* CollisionSimulation: the physics sub-step.                              *)

\* the numerators of the 1-D elastic formulas of handlePQCollision; the new
\* velocities are these divided by m1 + m2
\* the first numerator with the factor 2 of its second term left out
ElasticNum1Single(m1, v1, m2, v2) == (m1 - m2) * v1 + m2 * v2

ElasticNum1(m1, v1, m2, v2) == (m1 - m2) * v1 + 2 * m2 * v2

\* the second numerator with the masses of its first term exchanged
ElasticNum2Swapped(m1, v1, m2, v2) == (m1 - m2) * v2 + 2 * m1 * v1

ElasticNum2(m1, v1, m2, v2) == (m2 - m1) * v2 + 2 * m1 * v1

\* the numerators and the rounding of their quotients fit 32 bits
NumeratorsFit(m1, v1, m2, v2) ==
    Abs(v1) + Abs(v2) < 268435456 \div (m1 + m2)

\* newV1 and newV2: the numerators over m1 + m2, to the nearest unit.  The
\* numerators are (m1+m2)*v1 - 2*m2*(v1-v2) and (m1+m2)*(2*v1-v2) -
\* 2*m2*(v1-v2); where a numerator does not fit 32 bits, the same quotient
\* is taken of the last term alone.
NewV1(m1, v1, m2, v2) ==
    IF NumeratorsFit(m1, v1, m2, v2)
    THEN RoundDiv(ElasticNum1(m1, v1, m2, v2), m1 + m2)
    ELSE v1 + RoundDiv(-2 * m2 * (v1 - v2), m1 + m2)
NewV2(m1, v1, m2, v2) ==
    IF NumeratorsFit(m1, v1, m2, v2)
    THEN RoundDiv(ElasticNum2(m1, v1, m2, v2), m1 + m2)
    ELSE (2 * v1 - v2) + RoundDiv(-2 * m2 * (v1 - v2), m1 + m2)

\* handlePQCollision() that counts the collision twice
HandlePQCollisionTwice(c, t) ==
    LET m1 == c.objectP.mass
        m2 == c.objectQ.mass
        v1 == c.objectP.v
        v2 == c.objectQ.v
    IN  [c EXCEPT !.objectP.v = NewV1(m1, v1, m2, v2),
                  !.objectQ.v = NewV2(m1, v1, m2, v2),
                  !.objectQ.x = c.objectP.x - PRadius - QRadius - Separation,
                  !.collisionCount = c.collisionCount + 2,
                  !.lastCollisionTime = t,
                  !.collisionHistory = @ \o <<"PQ", "PQ">>]

\* handlePQCollision(): new velocities, Q placed a separation left of P,
\* the collision counted and time-stamped
HandlePQCollision(c, t) ==
    LET m1 == c.objectP.mass
        m2 == c.objectQ.mass
        v1 == c.objectP.v
        v2 == c.objectQ.v
    IN  [c EXCEPT !.objectP.v = NewV1(m1, v1, m2, v2),
                  !.objectQ.v = NewV2(m1, v1, m2, v2),
                  !.objectQ.x = c.objectP.x - PRadius - QRadius - Separation,
                  !.collisionCount = c.collisionCount + 1,
                  !.lastCollisionTime = t,
                  !.collisionHistory = Append(@, "PQ")]

\* handleWallCollision() that leaves Q's velocity as it is
HandleWallCollisionNoReflect(c, t) ==
    [c EXCEPT !.objectQ.x = WallPos + QRadius + Separation,
              !.collisionCount = c.collisionCount + 1,
              !.lastCollisionTime = t,
              !.collisionHistory = Append(@, "QWall")]

\* handleWallCollision() that halves Q's speed
HandleWallCollisionDamped(c, t) ==
    [c EXCEPT !.objectQ.v = (-c.objectQ.v) \div 2,
              !.objectQ.x = WallPos + QRadius + Separation,
              !.collisionCount = c.collisionCount + 1,
              !.lastCollisionTime = t,
              !.collisionHistory = Append(@, "QWall")]

\* handleWallCollision(): Q's velocity reflected, Q placed off the wall
HandleWallCollision(c, t) ==
    [c EXCEPT !.objectQ.v = -c.objectQ.v,
              !.objectQ.x = WallPos + QRadius + Separation,
              !.collisionCount = c.collisionCount + 1,
              !.lastCollisionTime = t,
              !.collisionHistory = Append(@, "QWall")]

\* handlePWallCollision(): the same for P
HandlePWallCollision(c, t) ==
    [c EXCEPT !.objectP.v = -c.objectP.v,
              !.objectP.x = WallPos + PRadius + Separation,
              !.collisionCount = c.collisionCount + 1,
              !.lastCollisionTime = t,
              !.collisionHistory = Append(@, "PWall")]

\* the P-Q test of updatePhysics on the positions after integration
PQCollides(pPos, qPos, vP, vQ) ==
    LET distance == Abs(pPos - qPos)
        minDistance == PRadius + QRadius
        relativeVelocity == vP - vQ
        isApproaching == \/ (pPos > qPos /\ relativeVelocity < 0)
                         \/ (pPos < qPos /\ relativeVelocity > 0)
    IN  /\ distance <= minDistance
        /\ isApproaching
        /\ Abs(relativeVelocity) > VScale \div 1000000

\* the Q-wall and P-wall tests
QHitsWall(qPos, vQ) == qPos - QRadius <= WallPos /\ vQ < 0
PHitsWall(pPos, vP) == pPos - PRadius <= WallPos /\ vP < 0

\* the stop condition without its energy and speed tests
ShouldStopWhenStagnant(c, t) ==
    LET timeSinceLastCollision == t - c.lastCollisionTime
    IN  timeSinceLastCollision > QuietPeriod

\* the stop condition at the end of updatePhysics; a ratio with a zero
\* initialEnergy is NaN or Infinity and compares false
ShouldStop(c, t) ==
    LET timeSinceLastCollision == t - c.lastCollisionTime
        currentEnergy == KineticEnergy(c.objectP, c.objectQ)
        isStagnant == timeSinceLastCollision > QuietPeriod
        isLowEnergy == /\ c.initialEnergy # ZeroEnergy
                       /\ BelowHundredth(currentEnergy, c.initialEnergy)
        areBothSlow == /\ Abs(c.objectP.v) * 1000 < VScale
                       /\ Abs(c.objectQ.v) * 1000 < VScale
    IN  isStagnant /\ (isLowEnergy \/ areBothSlow)

\* the emergency correction that turns the body right and leaves it where
\* it is
EmergencyCorrectionInPlace(body, radius) ==
    [body EXCEPT !.v = Abs(body.v)]

\* the emergency correction of updatePhysics for a body whose centre is
\* left of the wall
EmergencyCorrection(body, radius) ==
    [body EXCEPT !.x = WallPos + radius + Separation, !.v = Abs(body.v)]

\* updatePhysics(dt): dt in microseconds, t the value of Date.now().
\* pPos and qPos are the positions right after integration; the later tests
\* keep using them after a handler has moved a body.
UpdatePhysics(c, dt, t) ==
    LET pPos == c.objectP.x + (c.objectP.v * dt) \div TimeQuantum
        qPos == c.objectQ.x + (c.objectQ.v * dt) \div TimeQuantum
        c0 == [c EXCEPT !.objectP.x = pPos, !.objectQ.x = qPos]
        c1 == IF PQCollides(pPos, qPos, c0.objectP.v, c0.objectQ.v)
              THEN HandlePQCollision(c0, t) ELSE c0
        c2 == IF QHitsWall(qPos, c1.objectQ.v)
              THEN HandleWallCollision(
                       [c1 EXCEPT !.objectQ.x = WallPos + QRadius + WallNudge], t)
              ELSE c1
        c3 == IF qPos < WallPos
              THEN [c2 EXCEPT !.objectQ = EmergencyCorrection(@, QRadius)]
              ELSE c2
        c4 == IF PHitsWall(pPos, c3.objectP.v)
              THEN HandlePWallCollision(
                       [c3 EXCEPT !.objectP.x = WallPos + PRadius + WallNudge], t)
              ELSE c3
        c5 == IF pPos < WallPos
              THEN [c4 EXCEPT !.objectP = EmergencyCorrection(@, PRadius)]
              ELSE c4
    IN  IF ~HasObjects(c) THEN c
        ELSE IF ShouldStop(c5, t) THEN Stop(c5) ELSE c5

\* the largest number of sub-steps update(deltaTime) takes
MaxSubSteps == 500

\* a schedule with ten times the sub-steps for the largest mass ratios
SubStepsTenfold(massRatio) ==
    IF massRatio >= 1000000 THEN 5000
    ELSE IF massRatio >= 10000 THEN 200
    ELSE IF massRatio >= 100 THEN 100
    ELSE 50

\* the sub-step schedule of update(deltaTime): [steps, dt]
SubSteps(massRatio) ==
    IF massRatio >= 1000000 THEN 500
    ELSE IF massRatio >= 10000 THEN 200
    ELSE IF massRatio >= 100 THEN 100
    ELSE 50

MaxDt(massRatio) ==
    IF massRatio >= 1000000 THEN 50
    ELSE IF massRatio >= 10000 THEN 100
    ELSE IF massRatio >= 100 THEN 100
    ELSE 200

\* the sub-step length without the cap of maxDt
StepDtUncapped(massRatio, deltaTime) ==
    deltaTime \div SubSteps(massRatio)

StepDt(massRatio, deltaTime) ==
    Min(deltaTime \div SubSteps(massRatio), MaxDt(massRatio))


-----------------------------------------------------------------------------
(* The application class in Monte Carlo mode: Init and actions.            *)

EmptyStats == [totalBalls |-> 0, insideBalls |-> 0, piEstimate |-> 0, error |-> 0]

\* updateStats(): in collision mode the Monte Carlo panel is left alone
UpdateStats(bs, tot, ins) ==
    IF mode = COLLISION THEN uiStats ELSE ComputeStats(bs, tot, ins)

\* the state after construction of the application and of its simulators
Init ==
    /\ balls = <<>>
    /\ state = STOPPED
    /\ mode = MONTE_CARLO
    /\ lastDropTime = 0
    /\ totalBallsDropped = 0
    /\ totalInsideBalls = 0
    /\ batchSize = DefaultBatchSize
    /\ ballCounter = 0
    /\ uiStats = EmptyStats
    /\ currentTime = 0
    /\ shadow = <<>>
    /\ evicted = <<>>
    /\ lastSpawnTime = -1
    /\ physBalls = <<>>
    /\ physTime = 0
    /\ landedUpdates = 0
    /\ col = NewCollisionSimulation
    /\ now = 0
    /\ subLeft = 0
    /\ subDt = 0
    /\ lastOp = "none"
    /\ scene = ConstructedScene

\* start()
AppStart ==
    /\ subLeft = 0
    /\ state \in {STOPPED, PAUSED}
    /\ state' = RUNNING
    /\ col' = IF mode = COLLISION THEN Start(col, now) ELSE col
    /\ lastOp' = IF mode = COLLISION THEN "start" ELSE lastOp
    /\ UNCHANGED <<balls, mode, lastDropTime, totalBallsDropped,
                   totalInsideBalls, batchSize, ballCounter, uiStats,
                   currentTime, shadow, evicted, lastSpawnTime, physVars, now, subLeft, subDt,
                   scene>>

\* pause()
AppPause ==
    /\ subLeft = 0
    /\ state = RUNNING
    /\ state' = PAUSED
    /\ col' = IF mode = COLLISION THEN Stop(col) ELSE col
    /\ lastOp' = IF mode = COLLISION THEN "stop" ELSE lastOp
    /\ UNCHANGED <<balls, mode, lastDropTime, totalBallsDropped,
                   totalInsideBalls, batchSize, ballCounter, uiStats,
                   currentTime, shadow, evicted, lastSpawnTime, physVars, now, subLeft, subDt,
                   scene>>

\* reset()
AppReset ==
    /\ subLeft = 0
    /\ state' = STOPPED
    /\ IF mode = MONTE_CARLO
       THEN /\ balls' = <<>>
            /\ ballCounter' = 0
            /\ lastDropTime' = 0
            /\ totalBallsDropped' = 0
            /\ totalInsideBalls' = 0
            /\ shadow' = <<>>
            /\ evicted' = <<>>
            /\ lastSpawnTime' = lastSpawnTime
            /\ uiStats' = ComputeStats(<<>>, 0, 0)
            /\ scene' = scene \ BallMeshes(Ids(balls))
            /\ UNCHANGED <<col, lastOp>>
       ELSE /\ col' = Reset(col)
            /\ lastOp' = "reset"
            /\ scene' = SceneInitialize(scene)
            /\ UNCHANGED <<balls, ballCounter, lastDropTime, totalBallsDropped,
                           totalInsideBalls, shadow, evicted, lastSpawnTime, uiStats>>
    /\ UNCHANGED <<mode, batchSize, currentTime, physVars, now, subLeft, subDt>>

\* setBatchSize(batchSize)
AppSetBatchSize(n) ==
    /\ subLeft = 0
    /\ batchSize' = n
    /\ UNCHANGED <<balls, state, mode, lastDropTime, totalBallsDropped,
                   totalInsideBalls, ballCounter, uiStats, currentTime,
                   shadow, evicted, lastSpawnTime, physVars, colVars, scene>>

\* One animation frame in Monte Carlo mode: update(currentTime, deltaTime).
\* While RUNNING the frame first spawns and evicts, then runs the physics
\* tick; while STOPPED or PAUSED it runs the physics tick only.  Every frame
\* ends with updateStats().  L is the set of balls that land in this tick (a
\* ball cannot land in the tick it was spawned in: it starts metres above the
\* ground), S the set of evicted balls that would have landed in this tick.
AppFrameMC(gap, ins, L, S) ==
    LET ct == currentTime + gap
        u  == IF state = RUNNING
              THEN UpdateMonteCarloSimulation(ct, ins)
              ELSE [balls |-> balls, lastDropTime |-> lastDropTime,
                    ballCounter |-> ballCounter,
                    total |-> totalBallsDropped, inside |-> totalInsideBalls,
                    spawned |-> <<>>, removed |-> <<>>]
        after == LandBalls(u.balls, L)
    IN  /\ subLeft = 0
        /\ mode = MONTE_CARLO
        /\ ct <= MaxTime
        /\ u.ballCounter <= MaxSpawned
        /\ L \subseteq InFlight(balls)
        /\ S \subseteq (InFlight(shadow) \ Ids(balls))
        /\ currentTime' = ct
        /\ balls' = after
        /\ lastDropTime' = u.lastDropTime
        /\ ballCounter' = u.ballCounter
        /\ totalBallsDropped' = u.total
        /\ totalInsideBalls' = u.inside
        /\ shadow' = LandBalls(shadow \o u.spawned, L \cup S)
        /\ evicted' = evicted \o u.removed
        /\ lastSpawnTime' = IF u.ballCounter # ballCounter THEN ct
                                                           ELSE lastSpawnTime
        /\ uiStats' = UpdateStats(after, u.total, u.inside)
        /\ scene' = (scene \ BallMeshes(Ids(balls) \ Ids(after)))
                         \cup BallMeshes(Ids(after) \ Ids(balls))
        /\ UNCHANGED <<state, mode, batchSize, physVars, colVars>>

\* the frame callback with its inputs: the timestamp, the sampled positions
\* of the new balls and the landings of this tick
FrameMC ==
    \E gap \in FrameGaps, ins \in [1..batchSize -> BOOLEAN] :
      \E L \in SUBSET InFlight(balls) :
        \E S \in SUBSET (InFlight(shadow) \ Ids(balls)) :
          AppFrameMC(gap, ins, L, S)

SetBatchSize == \E n \in BatchSizes : AppSetBatchSize(n)

NextMC ==
    \/ AppStart
    \/ AppPause
    \/ AppReset
    \/ SetBatchSize
    \/ FrameMC

SpecMC == Init /\ [][NextMC]_vars


-----------------------------------------------------------------------------
(* EnhancedBallPhysics: millimetres, millimetres per second, milliseconds. *)

Vec(x, y, z) == [x |-> x, y |-> y, z |-> z]

\* groundLevel + 0.3 with the application's floor level of -5
GroundLevel == -5000 + 300
Gravity == -9800
\* the vertical speed above which a ball at the ground bounces
BounceSpeed == 500
\* bounceDamping = 0.7, in tenths
BounceDamping == 7

\* heights above the ground at which createBall places a ball, its initial
\* velocities, the frame lengths handed to update(), the accelerations that
\* drag, wind, buoyancy and the Magnus effect add up to in one update, and
\* the lateral scatter of a bounce ((Math.random() - 0.5) * 2.0)
DropHeights == {50, 400}
InitialVelocities == {Vec(0, 0, 0), Vec(250, -150, -250)}
PhysDeltaTimes == {50, 100}
AeroAccels == {Vec(0, 0, 0), Vec(300, 200, -300)}
BounceKicks == {Vec(0, 0, 0), Vec(-1000, 0, 999)}

\* a * deltaTime with deltaTime in milliseconds
TimesDt(a, dt) == (a * dt) \div 1000

\* createBall: the kinematic part of a new ball
NewPhysBall(h, v) ==
    [hasLanded |-> FALSE, position |-> Vec(0, GroundLevel + h, 0), velocity |-> v]

\* applyAdvancedPhysics: gravity, then the aerodynamic accelerations
ApplyAdvancedPhysics(ball, dt, acc) ==
    [ball EXCEPT !.velocity =
        Vec(@.x + TimesDt(acc.x, dt),
            @.y + TimesDt(Gravity, dt) + TimesDt(acc.y, dt),
            @.z + TimesDt(acc.z, dt))]

\* updatePosition
UpdatePosition(ball, dt) ==
    [ball EXCEPT !.position =
        Vec(@.x + TimesDt(ball.velocity.x, dt),
            @.y + TimesDt(ball.velocity.y, dt),
            @.z + TimesDt(ball.velocity.z, dt))]

\* handleGroundCollision that lands every ball at the ground, whatever its
\* speed
HandleGroundCollisionNoBounce(ball, kick) ==
    IF ball.position.y <= GroundLevel
    THEN [ball EXCEPT !.position.y = GroundLevel,
                      !.velocity = Vec(0, 0, 0),
                      !.hasLanded = TRUE]
    ELSE ball

\* handleGroundCollision
HandleGroundCollision(ball, kick) ==
    IF ball.position.y <= GroundLevel
    THEN IF Abs(ball.velocity.y) > BounceSpeed
         THEN [ball EXCEPT !.position.y = GroundLevel,
                           !.velocity = Vec(@.x + kick.x,
                                            ((-@.y) * BounceDamping) \div 10,
                                            @.z + kick.z)]
         ELSE [ball EXCEPT !.position.y = GroundLevel,
                           !.velocity = Vec(0, 0, 0),
                           !.hasLanded = TRUE]
    ELSE ball

\* the three steps of update() on one ball
IntegrateBall(ball, dt, acc, kick) ==
    HandleGroundCollision(
        UpdatePosition(ApplyAdvancedPhysics(ball, dt, acc), dt), kick)

\* update() without its test of hasLanded
UpdateBallUnguarded(ball, dt, acc, kick) ==
    IntegrateBall(ball, dt, acc, kick)

\* the body of the forEach of update()
UpdateBall(ball, dt, acc, kick) ==
    IF ~ball.hasLanded THEN IntegrateBall(ball, dt, acc, kick) ELSE ball

\* createBall followed by balls.push
PhysCreateBall(h, v) ==
    /\ Len(physBalls) < MaxPhysBalls
    /\ physBalls' = Append(physBalls, NewPhysBall(h, v))
    /\ scene' = scene \cup {BallMesh(Len(physBalls))}
    /\ UNCHANGED <<mcVars, physTime, landedUpdates, colVars>>

\* update(balls, deltaTime, environment)
PhysUpdate(dt, accs, kicks) ==
    /\ physTime + dt <= MaxPhysTime
    /\ physTime' = physTime + dt
    /\ physBalls' = [i \in DOMAIN physBalls |->
                        UpdateBall(physBalls[i], dt, accs[i], kicks[i])]
    /\ landedUpdates' = IF \E i \in DOMAIN physBalls : physBalls[i].hasLanded
                        THEN landedUpdates + 1
                        ELSE landedUpdates
    /\ UNCHANGED <<mcVars, colVars, scene>>

CreateBallPhys == \E h \in DropHeights, v \in InitialVelocities : PhysCreateBall(h, v)

UpdatePhys ==
    \E dt \in PhysDeltaTimes :
      \E accs \in [DOMAIN physBalls -> AeroAccels],
         kicks \in [DOMAIN physBalls -> BounceKicks] :
        PhysUpdate(dt, accs, kicks)

NextPhys ==
    \/ CreateBallPhys
    \/ UpdatePhys

SpecPhys == Init /\ [][NextPhys]_vars

\* CircleArea: radius and centre of the target circle (mm)
CircleRadius == 1500
CenterX == 0
CenterZ == 0

\* isPointInCircle with a strict comparison
IsPointInCircleStrict(x, z) ==
    (x - CenterX) * (x - CenterX) + (z - CenterZ) * (z - CenterZ)
        < CircleRadius * CircleRadius

\* isPointInCircle(x, z): sqrt(dx^2 + dz^2) <= radius, compared squared
IsPointInCircle(x, z) ==
    (x - CenterX) * (x - CenterX) + (z - CenterZ) * (z - CenterZ)
        <= CircleRadius * CircleRadius

\* positions (x, z) that createBall samples in the square around the
\* circle: the centre, a point of the circle itself, a point outside the
\* circle, a corner of the square
SamplePoints == {<<0, 0>>, <<0, -1500>>, <<1100, 1100>>, <<-1500, -1500>>}

\* createBall: the ball with its sampled position and its isInside flag
NewBall(x, z, h, v) ==
    [hasLanded |-> FALSE, position |-> Vec(x, GroundLevel + h, z),
     velocity |-> v, isInside |-> IsPointInCircle(x, z)]

\* createBall followed by balls.push
SampleCreateBall(x, z, h, v) ==
    /\ Len(physBalls) < MaxPhysBalls
    /\ physBalls' = Append(physBalls, NewBall(x, z, h, v))
    /\ scene' = scene \cup {BallMesh(Len(physBalls))}
    /\ UNCHANGED <<mcVars, physTime, landedUpdates, colVars>>

CreateBallSampled ==
    \E p \in SamplePoints, h \in DropHeights, v \in InitialVelocities :
        SampleCreateBall(p[1], p[2], h, v)

NextInside ==
    \/ CreateBallSampled
    \/ UpdatePhys

\* balls created at sampled positions, then moved by update()
SpecInside == Init /\ [][NextInside]_vars

-----------------------------------------------------------------------------
(* CollisionSimulation: actions.                                           *)

\* initialize(m)
ColInitialize(m) ==
    /\ subLeft = 0
    /\ col' = Initialize(col, m)
    /\ lastOp' = "initialize"
    /\ scene' = SceneInitialize(scene)
    /\ UNCHANGED <<mcVars, physVars, now, subLeft, subDt>>

\* start()
ColStart ==
    /\ subLeft = 0
    /\ col' = Start(col, now)
    /\ lastOp' = "start"
    /\ UNCHANGED <<mcVars, physVars, now, subLeft, subDt, scene>>

\* stop()
ColStop ==
    /\ subLeft = 0
    /\ col' = Stop(col)
    /\ lastOp' = "stop"
    /\ UNCHANGED <<mcVars, physVars, now, subLeft, subDt, scene>>

\* reset()
ColReset ==
    /\ subLeft = 0
    /\ col' = Reset(col)
    /\ lastOp' = "reset"
    /\ scene' = SceneInitialize(scene)
    /\ UNCHANGED <<mcVars, physVars, now, subLeft, subDt>>

\* setMassRatio(m)
ColSetMassRatio(m) ==
    /\ subLeft = 0
    /\ col' = SetMassRatio(col, m)
    /\ lastOp' = "setMassRatio"
    /\ scene' = SceneInitialize(scene)
    /\ UNCHANGED <<mcVars, physVars, now, subLeft, subDt>>

\* clear()
ColClear ==
    /\ subLeft = 0
    /\ col' = Clear(col)
    /\ lastOp' = "clear"
    /\ scene' = SceneClear(scene)
    /\ UNCHANGED <<mcVars, physVars, now, subLeft, subDt>>

\* update(deltaTime) without the test of isRunning
ColUpdateIgnoresStop(deltaTime) ==
    /\ subLeft = 0
    /\ HasObjects(col)
    /\ ~(col.objectP.v > 0 /\ col.objectP.x > Mm(MaxPosMm))
    /\ col.collisionCount <= MaxCollisions
    /\ subLeft' = SubSteps(col.massRatio)
    /\ subDt' = StepDt(col.massRatio, deltaTime)
    /\ lastOp' = "update"
    /\ UNCHANGED <<mcVars, physVars, col, now, scene>>

\* update(deltaTime) up to the head of its loop: the early return, then the
\* number of sub-steps and their length.  The driver calls it until P has
\* left to the right.
ColUpdate(deltaTime) ==
    /\ subLeft = 0
    /\ HasObjects(col) =>
          /\ ~(col.objectP.v > 0 /\ col.objectP.x > Mm(MaxPosMm))
          /\ col.collisionCount <= MaxCollisions
    /\ IF ~col.isRunning \/ ~HasObjects(col)
       THEN UNCHANGED <<subLeft, subDt>>
       ELSE /\ subLeft' = SubSteps(col.massRatio)
            /\ subDt' = StepDt(col.massRatio, deltaTime)
    /\ lastOp' = "update"
    /\ UNCHANGED <<mcVars, physVars, col, now, scene>>

\* one turn of the loop of update(): updatePhysics(dt), then the test of
\* isRunning that leaves the loop
SubStep ==
    /\ subLeft > 0
    /\ col' = UpdatePhysics(col, subDt, now)
    /\ subLeft' = IF col'.isRunning THEN subLeft - 1 ELSE 0
    /\ UNCHANGED <<mcVars, physVars, now, subDt, lastOp, scene>>

\* Date.now() advances
ClockTick ==
    /\ now < ClockStep * MaxClockTicks
    /\ now' = now + ClockStep
    /\ UNCHANGED <<mcVars, physVars, col, subLeft, subDt, lastOp, scene>>

InitializeCol == \E m \in MassRatios : ColInitialize(m)

SetMassRatioCol == \E m \in MassRatios : ColSetMassRatio(m)

UpdateCol == \E deltaTime \in DeltaTimes : ColUpdate(deltaTime)

NextCol ==
    \/ InitializeCol
    \/ ColStart
    \/ ColStop
    \/ ColReset
    \/ SetMassRatioCol
    \/ ColClear
    \/ UpdateCol
    \/ SubStep
    \/ ClockTick

SpecCol == Init /\ [][NextCol]_vars

\* a run: initialize(m) once, start(), then update(deltaTime) frame after frame
RunInitialize ==
    /\ ~HasObjects(col)
    /\ \E m \in RunMassRatios : ColInitialize(m)

RunStart ==
    /\ HasObjects(col)
    /\ ~col.isRunning
    /\ ColStart

\* the render loop's call of update with its constant frame time
RunUpdate == ColUpdate(FrameTime)

NextRun ==
    \/ RunInitialize
    \/ RunStart
    \/ RunUpdate
    \/ SubStep
    \/ ClockTick

\* the render loop keeps calling update, and update runs to its end
SpecRun == Init /\ [][NextRun]_vars /\ WF_vars(NextRun)

\* The run of the largest mass ratio update() has a schedule for, followed
\* until P has pushed Q against the wall.
HeavyMassRatio == 1000000
\* the driver stops calling update once this many collisions were counted
MaxHeavyCollisions == 200

HeavyInitialize ==
    /\ ~HasObjects(col)
    /\ ColInitialize(HeavyMassRatio)

HeavyUpdate ==
    /\ subLeft = 0
    /\ col.isRunning
    /\ HasObjects(col)
    /\ col.collisionCount <= MaxHeavyCollisions
    /\ subLeft' = SubSteps(col.massRatio)
    /\ subDt' = StepDt(col.massRatio, FrameTime)
    /\ lastOp' = "update"
    /\ UNCHANGED <<mcVars, physVars, col, now, scene>>

NextHeavy ==
    \/ HeavyInitialize
    \/ RunStart
    \/ HeavyUpdate
    \/ SubStep

SpecHeavy == Init /\ [][NextHeavy]_vars

\* the simulator with a mass ratio of each schedule of update: initialize(m),
\* setMassRatio(m), reset(), start(), stop(), and update(deltaTime) while P
\* is still to the right of LoopMinPosMm
LoopMassRatios == {1, 100, 10000, 1000000}
LoopDeltaTimes == {0, FrameTime, 1000000}
LoopMinPosMm == 950

LoopInitialize == \E m \in LoopMassRatios : ColInitialize(m)

LoopSetMassRatio == \E m \in LoopMassRatios : ColSetMassRatio(m)

LoopUpdate ==
    /\ HasObjects(col) => col.objectP.x > Mm(LoopMinPosMm)
    /\ \E deltaTime \in LoopDeltaTimes : ColUpdate(deltaTime)

NextLoop ==
    \/ LoopInitialize
    \/ LoopSetMassRatio
    \/ ColReset
    \/ RunStart
    \/ ColStop
    \/ LoopUpdate
    \/ SubStep
    \/ ClockTick

SpecLoop == Init /\ [][NextLoop]_vars

-----------------------------------------------------------------------------
(* The application with both modes: the buttons, the mode selector, the    *)
(* mass-ratio select and the animation frame.                              *)

\* the loop of update(): updatePhysics(dt) up to n times, left as soon as
\* the simulator is not running
RECURSIVE RunSubSteps(_, _, _, _)
RunSubSteps(c, n, dt, t) ==
    IF n = 0 \/ ~c.isRunning THEN c
    ELSE RunSubSteps(UpdatePhysics(c, dt, t), n - 1, dt, t)

\* update(deltaTime) as one call
Update(c, deltaTime, t) ==
    IF ~c.isRunning \/ ~HasObjects(c) THEN c
    ELSE RunSubSteps(c, SubSteps(c.massRatio),
                     StepDt(c.massRatio, deltaTime), t)

\* the option of the mass-ratio select that is chosen; the select starts at
\* the simulator's default of 100
AppMassRatios == {1}

\* One animation frame in collision mode: while RUNNING update(deltaTime)
\* and the test of isComplete(); updateStats() writes the collision panel.
AppFrameCollision(gap) ==
    /\ subLeft = 0
    /\ mode = COLLISION
    /\ currentTime + gap <= MaxTime
    /\ currentTime' = currentTime + gap
    /\ IF state = RUNNING
       THEN /\ col' = Update(col, FrameTime, now)
            /\ state' = IF IsComplete(col') THEN STOPPED ELSE state
            /\ lastOp' = "update"
       ELSE UNCHANGED <<col, state, lastOp>>
    /\ UNCHANGED <<balls, mode, lastDropTime, totalBallsDropped,
                   totalInsideBalls, batchSize, ballCounter, uiStats,
                   shadow, evicted, lastSpawnTime, physVars, now, subLeft, subDt, scene>>

\* switchMode(newMode); the mass-ratio select shows the simulator's ratio
AppSwitchMode(newMode) ==
    /\ subLeft = 0
    /\ mode # newMode
    /\ state' = STOPPED
    /\ mode' = newMode
    /\ IF mode = MONTE_CARLO
       THEN /\ balls' = <<>>
            /\ col' = Initialize(col, col.massRatio)
            /\ lastOp' = "initialize"
            /\ scene' = SceneInitialize(
                            (scene \ BallMeshes(Ids(balls))) \ CircleAreaObjects)
            /\ UNCHANGED uiStats
       ELSE /\ col' = Clear(col)
            /\ lastOp' = "clear"
            /\ scene' = SceneClear(scene) \cup CircleAreaObjects
            /\ uiStats' = ComputeStats(balls, totalBallsDropped,
                                       totalInsideBalls)
            /\ UNCHANGED balls
    /\ UNCHANGED <<lastDropTime, totalBallsDropped, totalInsideBalls,
                   batchSize, ballCounter, currentTime, shadow, evicted, lastSpawnTime,
                   physVars, now, subLeft, subDt>>

\* the change handler of the mass-ratio select
AppMassRatioChange(m) ==
    /\ subLeft = 0
    /\ col' = SetMassRatio(col, m)
    /\ lastOp' = "setMassRatio"
    /\ scene' = SceneInitialize(scene)
    /\ UNCHANGED <<mcVars, physVars, now, subLeft, subDt>>

FrameCollision == \E gap \in FrameGaps : AppFrameCollision(gap)

SwitchMode == \E newMode \in {MONTE_CARLO, COLLISION} : AppSwitchMode(newMode)

MassRatioChange == \E m \in AppMassRatios : AppMassRatioChange(m)

\* the frame callback in Monte Carlo mode; the history variable shadow is
\* not followed past an eviction here
FrameApp ==
    \E gap \in FrameGaps, ins \in [1..batchSize -> BOOLEAN] :
      \E L \in SUBSET InFlight(balls) :
          AppFrameMC(gap, ins, L, {})

\* the batch-size slider moved to its largest value
SetLargestBatch == AppSetBatchSize(MaxBatch)

NextApp ==
    \/ AppStart
    \/ AppPause
    \/ AppReset
    \/ SetLargestBatch
    \/ FrameApp
    \/ FrameCollision
    \/ SwitchMode
    \/ MassRatioChange

SpecApp == Init /\ [][NextApp]_vars

\* the collision formulas alone: P and Q in contact with the masses and
\* velocities of the bounded sets, resolved once by handlePQCollision
InitElastic ==
    /\ balls = <<>>
    /\ state = STOPPED
    /\ mode = COLLISION
    /\ lastDropTime = 0
    /\ totalBallsDropped = 0
    /\ totalInsideBalls = 0
    /\ batchSize = DefaultBatchSize
    /\ ballCounter = 0
    /\ uiStats = EmptyStats
    /\ currentTime = 0
    /\ shadow = <<>>
    /\ evicted = <<>>
    /\ lastSpawnTime = -1
    /\ physBalls = <<>>
    /\ physTime = 0
    /\ landedUpdates = 0
    /\ \E m1 \in ElasticMasses, m2 \in ElasticMasses,
          v1 \in ElasticVelocities, v2 \in ElasticVelocities :
         col = [NewCollisionSimulation EXCEPT
                   !.objectP = [x |-> PRadius + QRadius, v |-> v1, mass |-> m1],
                   !.objectQ = [x |-> 0, v |-> v2, mass |-> m2]]
    /\ now = 0
    /\ subLeft = 0
    /\ subDt = 0
    /\ lastOp = "none"
    /\ scene = ConstructedScene

ResolvePQ ==
    /\ col.collisionCount = 0
    /\ col' = HandlePQCollision(col, now)
    /\ UNCHANGED <<mcVars, physVars, now, subLeft, subDt, lastOp, scene>>

SpecElastic == InitElastic /\ [][ResolvePQ]_vars

-----------------------------------------------------------------------------
(* updatePhysics on simulators with a body at the wall.  From initialize,   *)
(* update keeps both centres right of the wall, so the simulators are drawn: *)
(* Running, one sub-step of a frame ahead, the energy at its initial value.  *)

\* the fastest drawn body, in m/s
TunnelSpeed == 8
TunnelMassRatios == {1, 100}
TunnelPositionsQ == {WallPos - Mm(60), WallPos + Mm(1), QStartPos}
TunnelPositionsP == {WallPos - Mm(60), WallPos + Mm(1), PStartPos}
TunnelVelocitiesQ == {-TunnelSpeed * VScale, -VScale, 0, 2 * VScale}
TunnelVelocitiesP == {-TunnelSpeed * VScale, -VScale, VScale}

InitTunnel ==
    /\ balls = <<>>
    /\ state = RUNNING
    /\ mode = COLLISION
    /\ lastDropTime = 0
    /\ totalBallsDropped = 0
    /\ totalInsideBalls = 0
    /\ batchSize = DefaultBatchSize
    /\ ballCounter = 0
    /\ uiStats = EmptyStats
    /\ currentTime = 0
    /\ shadow = <<>>
    /\ evicted = <<>>
    /\ lastSpawnTime = -1
    /\ physBalls = <<>>
    /\ physTime = 0
    /\ landedUpdates = 0
    /\ \E m \in TunnelMassRatios,
          xP \in TunnelPositionsP, vP \in TunnelVelocitiesP,
          xQ \in TunnelPositionsQ, vQ \in TunnelVelocitiesQ :
         LET P == [x |-> xP, v |-> vP, mass |-> m]
             Q == [x |-> xQ, v |-> vQ, mass |-> 1]
         IN  /\ col = [Start(Initialize(NewCollisionSimulation, m), 0) EXCEPT
                          !.objectP = P, !.objectQ = Q,
                          !.initialEnergy = KineticEnergy(P, Q)]
             /\ subDt = StepDt(m, FrameTime)
    /\ now \in {0, ClockStep}
    /\ subLeft = 1
    /\ lastOp = "update"
    /\ scene = SceneInitialize(ConstructedScene)

SpecTunnel == InitTunnel /\ [][SubStep]_vars

-----------------------------------------------------------------------------
(* Properties of the Monte Carlo accumulator (checked under SpecMC).       *)

\* the statistics of the same run had no ball ever been evicted
ShadowStats == ComputeStats(shadow, 0, 0)

\* C1: eviction never changes the statistics: the reported totalBalls and
\* insideBalls equal those of the same run without eviction.
C1_EvictionPreservesStats ==
    /\ uiStats.totalBalls = ShadowStats.totalBalls
    /\ uiStats.insideBalls = ShadowStats.insideBalls

\* C2: 0 <= insideBalls <= totalBalls and 0 <= piEstimate <= 4, for the
\* statistics computed on demand and for those last shown.
StatsInRange(st) ==
    /\ 0 <= st.insideBalls
    /\ st.insideBalls <= st.totalBalls
    /\ 0 <= st.piEstimate
    /\ st.piEstimate <= 4000

C2_StatsWithinRange == StatsInRange(GetCurrentStats) /\ StatsInRange(uiStats)

\* a run in which landed balls were evicted and the statistics hold both
\* inside and outside balls
C2_Witness ==
    /\ totalBallsDropped > 0
    /\ uiStats.insideBalls > 0
    /\ uiStats.insideBalls < uiStats.totalBalls

\* C3: totalBalls is the number of landed balls among the evicted plus the
\* landed balls of the active set, insideBalls the same for landed-and-inside
\* balls, piEstimate is 4*insideBalls/totalBalls when totalBalls > 0, and
\* piEstimate and error are 0 when totalBalls = 0.
C3_StatsFormula ==
    LET landedEvicted == CountIf(evicted, LAMBDA b : b.hasLanded)
        insideEvicted == CountIf(evicted, LAMBDA b : b.hasLanded /\ b.isInside)
        landedActive  == CountIf(balls, LAMBDA b : b.hasLanded)
        insideActive  == CountIf(balls, LAMBDA b : b.hasLanded /\ b.isInside)
    IN  /\ uiStats.totalBalls = landedEvicted + landedActive
        /\ uiStats.insideBalls = insideEvicted + insideActive
        /\ uiStats.totalBalls > 0 =>
              uiStats.piEstimate * uiStats.totalBalls <= 4000 * uiStats.insideBalls
              /\ (uiStats.piEstimate + 1) * uiStats.totalBalls
                    > 4000 * uiStats.insideBalls
        /\ uiStats.totalBalls = 0 => uiStats.piEstimate = 0 /\ uiStats.error = 0
        /\ GetCurrentStats = uiStats

\* statistics taken while a landed ball has been evicted, another ball has
\* landed in the active set and a third is still in flight
C3_Witness ==
    /\ \E i \in DOMAIN evicted : evicted[i].hasLanded
    /\ \E i \in DOMAIN balls : balls[i].hasLanded
    /\ \E i \in DOMAIN balls : ~balls[i].hasLanded
    /\ uiStats.totalBalls > 0

-----------------------------------------------------------------------------
(* Properties of the ball integrator (checked under SpecPhys).             *)

\* C4: landing is terminal: a ball whose hasLanded is true keeps hasLanded,
\* its position and its velocity through every later update, whatever the
\* frame length and the environment.
C4_LandingIsTerminal ==
    [][\A i \in DOMAIN physBalls :
          physBalls[i].hasLanded =>
              /\ i \in DOMAIN physBalls'
              /\ physBalls'[i].hasLanded
              /\ physBalls'[i].position = physBalls[i].position
              /\ physBalls'[i].velocity = physBalls[i].velocity]_vars

\* update() has run on a list that holds a ball that had bounced and landed
C4_Witness ==
    /\ landedUpdates > 0
    /\ \E i \in DOMAIN physBalls :
          physBalls[i].hasLanded /\ physBalls[i].position.x # 0

-----------------------------------------------------------------------------
(* Properties of the collision simulator (checked under SpecRun, SpecCol   *)
(* and SpecElastic).                                                       *)

\* the energy of a run whose velocities are rounded stays within
\* initialEnergy / EnergySlack of initialEnergy
EnergySlack == 1000

\* the objects exist and were created for mass ratio m
RunOf(m) == HasObjects(col) /\ col.massRatio = m

\* Q right of the wall plane, P right of Q, both moving right or at rest and
\* P not slower than Q: no test of updatePhysics can fire again
Separated(c) ==
    /\ HasObjects(c)
    /\ c.objectQ.x >= WallPos
    /\ c.objectP.x > c.objectQ.x
    /\ c.objectQ.v >= 0
    /\ c.objectP.v >= c.objectQ.v

\* C5: for massRatio = 100 a run started by initialize(100), start() and
\* driven by update ends with collisionCount = 31 = floor(pi*sqrt(100)): the
\* count never exceeds 31, every run reaches 31 with the bodies separated and
\* stays there, and once the bodies are separated no update changes the count.
C5_HundredToOneCounts31 ==
    /\ [](RunOf(100) => col.collisionCount <= 31)
    /\ (RunOf(100) /\ col.isRunning)
          ~> [](col.collisionCount = 31
                /\ col.expectedCollisions = 31
                /\ Separated(col))
    /\ [][RunOf(100) /\ Separated(col) =>
             Separated(col') /\ col'.collisionCount = col.collisionCount]_vars

\* the run of mass ratio 100 after its 31st collision, P on its way out
C5_Witness ==
    /\ RunOf(100)
    /\ col.isRunning
    /\ col.collisionCount = 31
    /\ Separated(col)
    /\ col.objectP.x > Mm(-1000)

\* C6: for massRatio = 1 the collision sequence is finite: at most three
\* collisions are counted, every run reaches a state with the bodies
\* separated and stays separated, and once the bodies are separated no
\* update counts a collision again.
C6_EqualMassesSettle ==
    /\ [](RunOf(1) => col.collisionCount <= 3)
    /\ (RunOf(1) /\ col.isRunning) ~> []Separated(col)
    /\ [][RunOf(1) /\ Separated(col) =>
             Separated(col') /\ col'.collisionCount = col.collisionCount]_vars

\* the run of mass ratio 1 after its last collision: Q at rest, P leaving
\* with the speed it came with
C6_Witness ==
    /\ RunOf(1)
    /\ col.isRunning
    /\ col.collisionCount = 3
    /\ col.objectQ.v = 0
    /\ col.objectP.v = VScale
    /\ col.objectP.x > Mm(-1000)

\* C7: in every state reached through initialize, start and update the
\* kinetic energy of the two bodies equals the initialEnergy captured at
\* initialization.  The equality is exact for the mass ratios 1, 3 and 7,
\* whose velocities are whole velocity units; for the default mass ratio 100
\* the velocities are rounded to the unit and the energy is held to one part
\* in EnergySlack.
C7_EnergyConserved ==
    HasObjects(col) =>
        LET currentEnergy == KineticEnergy(col.objectP, col.objectQ)
        IN  IF col.massRatio \in MassRatios
            THEN currentEnergy = col.initialEnergy
            ELSE Abs(EnergyValue(currentEnergy)
                         - EnergyValue(col.initialEnergy)) * EnergySlack
                     <= EnergyValue(col.initialEnergy)

\* a running simulation of unequal masses after P-Q and wall collisions, Q
\* just reflected by the wall
C7_Witness ==
    /\ HasObjects(col)
    /\ col.isRunning
    /\ col.massRatio > 1
    /\ col.collisionCount >= 4
    /\ col.objectQ.x = WallPos + QRadius + Separation
    /\ col.objectQ.v > 0

\* C8: the velocities handlePQCollision computes are n1/(m1+m2) and
\* n2/(m1+m2) with the numerators n1, n2 of the 1-D elastic formulas; they
\* conserve momentum and kinetic energy and reverse the relative velocity,
\* and for m1 = 100, v1 = -2, m2 = 1, v2 = 0 they are -198/101 and -400/101.
C8_ElasticFormulas ==
    [][LET m1 == col.objectP.mass
           m2 == col.objectQ.mass
           v1 == col.objectP.v
           v2 == col.objectQ.v
           d  == m1 + m2
           n1 == ElasticNum1(m1, v1, m2, v2)
           n2 == ElasticNum2(m1, v1, m2, v2)
       IN  col'.collisionCount = col.collisionCount + 1 =>
             /\ 2 * Abs(d * col'.objectP.v - n1) <= d
             /\ 2 * Abs(d * col'.objectQ.v - n2) <= d
             /\ m1 * n1 + m2 * n2 = d * (m1 * v1 + m2 * v2)
             /\ m1 * n1 * n1 + m2 * n2 * n2
                   = d * d * (m1 * v1 * v1 + m2 * v2 * v2)
             /\ n1 - n2 = -(d * (v1 - v2))
             /\ (m1 = 100 /\ v1 = -2 /\ m2 = 1 /\ v2 = 0) =>
                   n1 = -198 /\ n2 = -400 /\ d = 101]_vars

\* the collision of m1 = 100, v1 = -2 with m2 = 1, v2 = 0 resolved: the
\* velocities stored are -198/101 and -400/101 to the nearest unit
C8_Witness ==
    /\ col.collisionCount = 1
    /\ col.objectP.mass = 100
    /\ col.objectQ.mass = 1
    /\ col.objectP.v = -2
    /\ col.objectQ.v = -4

\* C9: a sub-step in which Q, moving left with velocity v < 0, has its left
\* edge at or past the wall plane leaves Q with velocity -v, right of the
\* wall plane, and collisionCount one higher.
C9_QWallReflection ==
    [][LET qPos == col.objectQ.x + (col.objectQ.v * subDt) \div TimeQuantum
       IN  (/\ subLeft > 0
            /\ subLeft' # subLeft
            /\ HasObjects(col)
            /\ QHitsWall(qPos, col.objectQ.v)) =>
               /\ col'.objectQ.v = -col.objectQ.v
               /\ col'.objectQ.x - QRadius > WallPos
               /\ col'.collisionCount = col.collisionCount + 1]_vars

\* Q placed off the wall by the handler, moving right, in the middle of an
\* update
C9_Witness ==
    /\ HasObjects(col)
    /\ subLeft > 0
    /\ col.collisionCount > 0
    /\ col.objectQ.x = WallPos + QRadius + Separation
    /\ col.objectQ.v > 0
    /\ col.objectP.v < 0

\* C10: initialize(massRatio), reset() and setMassRatio(n), called in any
\* state, leave the simulator idle: collisionCount = 0, P and Q at their
\* initial positions and velocities, and not running.
C10_ResetsToIdle ==
    [][(InitializeCol \/ ColReset \/ SetMassRatioCol) =>
          /\ col'.collisionCount = 0
          /\ col'.objectP.x = PStartPos
          /\ col'.objectQ.x = QStartPos
          /\ col'.objectQ.v = 0
          /\ col'.objectP.v < 0
          /\ ~col'.isRunning]_vars

\* the positions and velocities of P and Q and the collision count
Bodies(c) == <<c.objectP, c.objectQ, c.collisionCount>>

\* C11: an update(dt) called while the simulator is not running (after
\* stop() and before the next start()) or has no bodies (before the first
\* initialize, after clear()) starts no sub-step and leaves the positions and
\* velocities of P and Q and the collisionCount unchanged; and no sub-step
\* ever runs on a simulator that is not running.
C11_StoppedUpdateChangesNothing ==
    [][/\ (lastOp' = "update" /\ subLeft = 0
              /\ (~col.isRunning \/ ~HasObjects(col))) =>
             (Bodies(col') = Bodies(col) /\ subLeft' = 0)
       /\ (subLeft' > 0 => col'.isRunning /\ HasObjects(col'))]_vars

\* update() was called on a simulator stopped in the middle of a run
C11_Witness ==
    /\ lastOp = "update"
    /\ subLeft = 0
    /\ ~col.isRunning
    /\ HasObjects(col)
    /\ col.collisionCount > 0
    /\ col.objectP.v < 0

\* C12: isComplete() is true only when the simulator is not running and
\* collisionCount >= expectedCollisions; it is false whenever the simulator
\* is running and in the idle state that initialize leaves when
\* expectedCollisions > 0.
C12_CompleteOnlyWhenStopped ==
    /\ IsComplete(col) =>
          ~col.isRunning /\ col.collisionCount >= col.expectedCollisions
    /\ col.isRunning => ~IsComplete(col)
    /\ (HasObjects(col) /\ col.collisionCount = 0 /\ col.expectedCollisions > 0)
          => ~IsComplete(col)

\* a run of mass ratio 1 stopped after its three collisions: isComplete()
\* is true
C12_Witness ==
    /\ IsComplete(col)
    /\ RunOf(1)
    /\ lastOp = "stop"
    /\ col.collisionCount = 3

C14_UpdateLoopBounded ==
    [][/\ subLeft' <= MaxSubSteps
       /\ (subLeft = 0 /\ subLeft' > 0) =>
              (lastOp' = "update" /\ subLeft' = SubSteps(col.massRatio))
       /\ subLeft > 0 => subLeft' <= subLeft
       /\ (subLeft > 0 /\ col' # col) => subLeft' < subLeft
       /\ ~col'.isRunning => subLeft' = 0]_vars

\* the last turn of the 500 of a run of mass ratio 10^6
C14_Witness ==
    /\ col.massRatio = 1000000
    /\ col.isRunning
    /\ lastOp = "update"
    /\ subLeft = 1
    /\ col.objectP.x < PStartPos

\* C15: once initialize, setMassRatio or reset has been called,
\* getExpectedCollisions() is floor(pi * sqrt(m)) for the current mass ratio
\* m (3 for 1, 31 for 100, 314 for 10^4, 3141 for 10^6), and start, update
\* and stop leave it as it is.
C15_ExpectedCollisionsFixed ==
    [][/\ HasObjects(col') =>
              /\ GetExpectedCollisions(col') = ExpectedCollisions(col'.massRatio)
              /\ GetExpectedCollisions(col') =
                     CASE col'.massRatio = 1 -> 3
                       [] col'.massRatio = 100 -> 31
                       [] col'.massRatio = 10000 -> 314
                       [] col'.massRatio = 1000000 -> 3141
       /\ (subLeft > 0 \/ now' # now
               \/ lastOp' \in {"start", "stop", "update"}) =>
              /\ GetExpectedCollisions(col') = GetExpectedCollisions(col)
              /\ col'.massRatio = col.massRatio]_vars

\* a run of mass ratio 10^6, stopped during its second call of update
C15_Witness ==
    /\ col.massRatio = 1000000
    /\ GetExpectedCollisions(col) = 3141
    /\ lastOp = "stop"
    /\ col.objectP.x < PStartPos

\* C16: initialize, reset, setMassRatio and clear of the CollisionSimulation
\* remove from the scene only objects the CollisionSimulation added itself:
\* an object of any other owner that is in the scene before a step is in
\* the scene after it.
C16_OnlyOwnObjectsRemoved ==
    [][\A o \in scene :
          o.owner # "CollisionSimulation" => o \in scene']_vars

\* C17: pause is idle: on a step that starts and ends with the application
\* PAUSED no ball is spawned, no ball changes (hasLanded included), and the
\* statistics shown and the collision count stay as they were.
C17_PausedIsIdle ==
    [][(state = PAUSED /\ state' = PAUSED) =>
           /\ balls' = balls
           /\ uiStats' = uiStats
           /\ col'.collisionCount = col.collisionCount]_vars

\* C18: a ball's isInside is set when the ball is created, to whether its
\* sampled (x, z) is within the circle, the circle itself included
\* (dx^2 + dz^2 <= radius^2), and no update (flight, bounce, landing)
\* changes it, wherever the ball moves.
C18_IsInsideFixedAtSpawn ==
    [][\A i \in DOMAIN physBalls' :
          IF i \in DOMAIN physBalls
          THEN physBalls'[i].isInside = physBalls[i].isInside
          ELSE LET dx == physBalls'[i].position.x - CenterX
                   dz == physBalls'[i].position.z - CenterZ
               IN  physBalls'[i].isInside =
                       (dx * dx + dz * dz <= CircleRadius * CircleRadius)]_vars

\* a ball sampled on the circle has landed outside it and is still inside
C18_Witness ==
    \E i \in DOMAIN physBalls :
        /\ physBalls[i].isInside
        /\ physBalls[i].hasLanded
        /\ ~IsPointInCircle(physBalls[i].position.x, physBalls[i].position.z)

\* C19: no two balls of the active set have the same id, whatever sequence
\* of spawns, evictions, resets and mode switches led there: every id is
\* below the counter, and the counter never decreases except that reset()
\* puts it back to 0, emptying the active set with it.
C19_BallIdsUnique ==
    [][/\ \A i, j \in DOMAIN balls' :
              i # j => balls'[i].id # balls'[j].id
       /\ \A i \in DOMAIN balls' : balls'[i].id < ballCounter'
       /\ ballCounter' < ballCounter =>
              (AppReset /\ ballCounter' = 0 /\ balls' = <<>>)]_vars

\* after a ball was spawned, a switch to collision mode and back, and a new
\* batch that caused an eviction: two balls with ids from 2 on
C19_Witness ==
    /\ mode = MONTE_CARLO
    /\ lastOp = "clear"
    /\ evicted # <<>>
    /\ Len(balls) = 2
    /\ balls[1].id >= 2
    /\ balls[2].id > balls[1].id

\* C20: a switch of mode leaves the application STOPPED with the entities
\* of the mode that is left torn down (no ball when Monte Carlo is left, no
\* P and Q when collision is left), and whatever the order of the UI events
\* (mode buttons, mass-ratio select, start, pause, reset) the active set
\* holds no ball while P and Q exist.
C20_ModeSwitchHandoff ==
    [][/\ mode' # mode =>
              /\ state' = STOPPED
              /\ mode = MONTE_CARLO => balls' = <<>>
              /\ mode = COLLISION => ~HasObjects(col')
       /\ ~(balls' # <<>> /\ HasObjects(col'))]_vars

\* C21: update(deltaTime) splits the frame into N sub-steps of one length
\* dt = min(deltaTime / N, maxDt), with (N, maxDt) = (500, 50 us) from a mass
\* ratio of 10^6, (200, 100 us) from 10^4, (100, 100 us) from 100 and
\* (50, 200 us) below; every sub-step of the frame moves the bodies by the
\* same dt.
C21_SubStepSchedule ==
    [][LET m == col.massRatio
           N == IF m >= 1000000 THEN 500
                ELSE IF m >= 10000 THEN 200
                ELSE IF m >= 100 THEN 100 ELSE 50
           maxDt == IF m >= 1000000 THEN 50
                    ELSE IF m >= 10000 THEN 100
                    ELSE IF m >= 100 THEN 100 ELSE 200
       IN  /\ (subLeft = 0 /\ subLeft' > 0) =>
                  /\ subLeft' = N
                  /\ \E deltaTime \in LoopDeltaTimes :
                         subDt' = Min(deltaTime \div N, maxDt)
           /\ subLeft > 0 => subDt' = subDt
           /\ (subLeft > 0 /\ subLeft' < subLeft) =>
                  col'.objectP.x = col.objectP.x
                      + (col.objectP.v * subDt) \div TimeQuantum]_vars

\* inside the 500 sub-steps of a frame of one second at mass ratio 10^6,
\* each of the capped length
C21_Witness ==
    /\ col.massRatio = 1000000
    /\ subLeft \in 1..499
    /\ subDt = 50
    /\ col.isRunning

\* C22: a P-Q collision is counted only in a sub-step where, after the
\* positions were advanced, the centres are at most 0.3 apart, the bodies
\* approach each other and their relative speed is not zero; every counted
\* collision has its entry in collisionHistory, and no two P-Q collisions
\* follow each other there without a wall collision between them.
C22_ContactCountedOnce ==
    [][(subLeft > 0 /\ HasObjects(col)) =>
          LET pPos == col.objectP.x + (col.objectP.v * subDt) \div TimeQuantum
              qPos == col.objectQ.x + (col.objectQ.v * subDt) \div TimeQuantum
              relativeVelocity == col.objectP.v - col.objectQ.v
              before == col.collisionHistory
              after == col'.collisionHistory
              pqCounted == \E i \in (Len(before) + 1)..Len(after) :
                              after[i] = "PQ"
          IN  /\ pqCounted =>
                     /\ Abs(pPos - qPos) <= Mm(300)
                     /\ \/ pPos > qPos /\ relativeVelocity < 0
                        \/ pPos < qPos /\ relativeVelocity > 0
                     /\ relativeVelocity # 0
              /\ Len(after) = col'.collisionCount
              /\ \A i \in 1..(Len(after) - 1) :
                     ~(after[i] = "PQ" /\ after[i + 1] = "PQ")]_vars

\* a second P-Q collision was just counted, after Q came back from the
\* wall, and the bodies now separate
C22_Witness ==
    /\ HasObjects(col)
    /\ subLeft > 0
    /\ Len(col.collisionHistory) >= 3
    /\ col.collisionHistory[Len(col.collisionHistory)] = "PQ"
    /\ col.collisionHistory[Len(col.collisionHistory) - 1] = "QWall"
    /\ col.objectP.v - col.objectQ.v > 0
    /\ col.objectP.x - col.objectQ.x <= Mm(311)

\* C23: a sub-step takes the simulator out of Running only when more than
\* 3000 ms have passed since the last counted collision or since start()
\* and, on top of that, the energy is below 1% of the initial energy or both
\* speeds are below 0.001; start() sets the beginning of the quiet period to
\* the current time, after a pause as well.
C23_AutoStopCondition ==
    [][/\ (subLeft > 0 /\ col.isRunning /\ ~col'.isRunning) =>
             /\ now - col'.lastCollisionTime > QuietPeriod
             /\ \/ /\ col'.initialEnergy # ZeroEnergy
                   /\ BelowHundredth(KineticEnergy(col'.objectP, col'.objectQ),
                                     col'.initialEnergy)
                \/ /\ Abs(col'.objectP.v) * 1000 < VScale
                   /\ Abs(col'.objectQ.v) * 1000 < VScale
       /\ (~col.isRunning /\ col'.isRunning) => col'.lastCollisionTime = now]_vars

\* the quiet period has passed in the middle of an update after a counted
\* collision, the bodies still carry their energy, and the simulator runs
C23_Witness ==
    /\ HasObjects(col)
    /\ col.isRunning
    /\ subLeft \in 1..(SubSteps(col.massRatio) - 1)
    /\ col.collisionCount > 0
    /\ now - col.lastCollisionTime > QuietPeriod

\* C24: a sub-step after whose integration the centre of P or of Q is left
\* of the wall plane completes, leaves the simulator Running, and leaves that
\* body at the contact position right of the wall (wall + radius + 0.01)
\* with a velocity that is not negative.
C24_TunnelingRecovered ==
    [][(subLeft > 0 /\ HasObjects(col) /\ col.isRunning) =>
          LET pPos == col.objectP.x + (col.objectP.v * subDt) \div TimeQuantum
              qPos == col.objectQ.x + (col.objectQ.v * subDt) \div TimeQuantum
          IN  /\ qPos < WallPos =>
                     /\ col'.objectQ.x = WallPos + QRadius + Mm(10)
                     /\ col'.objectQ.v >= 0
                     /\ col'.isRunning
                     /\ subLeft' = subLeft - 1
              /\ pPos < WallPos =>
                     /\ col'.objectP.x = WallPos + PRadius + Mm(10)
                     /\ col'.objectP.v >= 0
                     /\ col'.isRunning
                     /\ subLeft' = subLeft - 1]_vars

\* the sub-step is over, and Q, which no drawn simulator has at the contact
\* position, is there after one wall collision and moves right at the speed
\* at which only a Q at the wall plane moved left and ended left of it
C24_Witness ==
    /\ subLeft = 0
    /\ col.isRunning
    /\ col.objectQ.x = WallPos + QRadius + Mm(10)
    /\ col.objectQ.v = TunnelSpeed * VScale
    /\ col.objectP.x > Mm(0)
    /\ col.collisionHistory = <<"QWall">>

\* C26: an update of a ball that has not landed and that the integration
\* leaves at or below groundLevel puts it at groundLevel and then, if its
\* vertical speed is above 0.5, turns the vertical velocity round at 0.7 of
\* its size and leaves hasLanded false, and otherwise zeroes the velocity
\* and sets hasLanded; a ball above groundLevel does not land.  After the
\* update no ball is below groundLevel, and a landed ball is at groundLevel
\* with zero velocity.
C26_GroundContactRule ==
    [][physTime' # physTime =>
          \A i \in DOMAIN physBalls :
             LET before == physBalls[i]
                 after == physBalls'[i]
                 dt == physTime' - physTime
             IN  /\ ~before.hasLanded =>
                        \E acc \in AeroAccels :
                           LET moved == UpdatePosition(
                                           ApplyAdvancedPhysics(before, dt, acc), dt)
                           IN  IF moved.position.y <= GroundLevel
                               THEN /\ after.position.y = GroundLevel
                                    /\ IF Abs(moved.velocity.y) > 500
                                       THEN /\ after.velocity.y =
                                                  ((-moved.velocity.y) * 7) \div 10
                                            /\ ~after.hasLanded
                                       ELSE /\ after.velocity = Vec(0, 0, 0)
                                            /\ after.hasLanded
                               ELSE /\ after.position = moved.position
                                    /\ after.velocity = moved.velocity
                                    /\ ~after.hasLanded
                 /\ after.position.y >= GroundLevel
                 /\ after.hasLanded =>
                        /\ after.velocity = Vec(0, 0, 0)
                        /\ after.position.y = GroundLevel]_vars

\* a ball that has just bounced: at groundLevel, moving up, not landed
C26_Witness ==
    \E i \in DOMAIN physBalls :
       /\ ~physBalls[i].hasLanded
       /\ physBalls[i].position.y = GroundLevel
       /\ physBalls[i].velocity.y > 0
       /\ physTime > 0

\* C25: from the initial configuration on, Q is between the wall and P,
\* wall < qPos < pPos, its left edge is not inside the wall when a sub-step
\* has ended, and no collision of P with the wall is counted.
C25_QBetweenWallAndP ==
    HasObjects(col) =>
       /\ WallPos < col.objectQ.x
       /\ col.objectQ.x < col.objectP.x
       /\ col.objectQ.x - QRadius >= WallPos
       /\ \A i \in DOMAIN col.collisionHistory : col.collisionHistory[i] # "PWall"

\* C27: a frame removes balls from the active set only if it has spawned a
\* batch and the set then holds more than the ceiling; it then removes
\* exactly the EvictCount balls at the front, keeps the others in their
\* order, and adds each removed landed ball to totalBallsDropped and, if it
\* is inside, to totalInsideBalls.  In every step the mesh of each ball that
\* leaves the active set (by eviction, reset or mode switch) is out of the
\* scene.
C27_EvictionMechanics ==
    [][/\ currentTime' # currentTime =>
             LET spawns == /\ state = RUNNING
                           /\ mode = MONTE_CARLO
                           /\ currentTime' - lastDropTime > 500
                 n == IF spawns THEN Len(balls) + batchSize ELSE Len(balls)
                 k == IF spawns /\ n > EvictCeiling THEN EvictCount ELSE 0
                 gone == 1..Min(k, Len(balls))
             IN  /\ Len(balls') = n - k
                 /\ \A i \in 1..Len(balls') :
                        balls'[i].id =
                           IF i + k <= Len(balls) THEN balls[i + k].id
                           ELSE ballCounter + (i + k - Len(balls) - 1)
                 /\ totalBallsDropped' = totalBallsDropped
                        + Cardinality({i \in gone : balls[i].hasLanded})
                 /\ totalInsideBalls' = totalInsideBalls
                        + Cardinality({i \in gone : balls[i].hasLanded
                                                     /\ balls[i].isInside})
       /\ \A id \in Ids(balls) \ Ids(balls') : BallMesh(id) \notin scene']_vars

\* an eviction has removed a landed ball from the front and counted it,
\* and the balls behind it are still active
C27_Witness ==
    /\ mode = MONTE_CARLO
    /\ Len(evicted) = EvictCount
    /\ evicted[1].hasLanded
    /\ totalBallsDropped > 0
    /\ Len(balls) > 0
    /\ balls[1].id = evicted[1].id + EvictCount
    /\ BallMesh(evicted[1].id) \notin scene

\* C28: balls are spawned only by a frame in which the application is
\* RUNNING in Monte Carlo mode and currentTime - lastDropTime > 500; such a
\* frame creates exactly batchSize balls, none of them landed, and sets
\* lastDropTime to currentTime; setBatchSize changes nothing but the size of
\* the later batches; two consecutive spawns with no reset between them are
\* more than 500 ms apart.
C28_BatchSpawning ==
    [][LET due == /\ state = RUNNING
                  /\ mode = MONTE_CARLO
                  /\ currentTime' - lastDropTime > 500
           isFrame == currentTime' # currentTime
           new == {i \in DOMAIN balls' : balls'[i].id \notin Ids(balls)}
       IN  /\ (isFrame /\ due) =>
                 /\ ballCounter' = ballCounter + batchSize
                 /\ lastDropTime' = currentTime'
                 /\ lastSpawnTime' = currentTime'
                 /\ \A i \in new : /\ ~balls'[i].hasLanded
                                    /\ balls'[i].id \in
                                          ballCounter..(ballCounter + batchSize - 1)
                 /\ Len(shadow') = Len(shadow) + batchSize
                 /\ (lastSpawnTime >= 0 /\ lastDropTime = lastSpawnTime) =>
                        currentTime' - lastSpawnTime > 500
           /\ ~(isFrame /\ due) =>
                 /\ new = {}
                 /\ ballCounter' \in {ballCounter, 0}
                 /\ lastDropTime' \in {lastDropTime, 0}
                 /\ lastSpawnTime' = lastSpawnTime
           /\ batchSize' # batchSize =>
                 /\ balls' = balls
                 /\ ballCounter' = ballCounter
                 /\ lastDropTime' = lastDropTime]_vars

\* the second spawn of a run, of a batch size set after the first: the
\* batch is in the active set, none of it landed
C28_Witness ==
    /\ state = RUNNING
    /\ lastDropTime = currentTime
    /\ lastSpawnTime = currentTime
    /\ batchSize = 2
    /\ ballCounter = 3
    /\ Len(balls) >= 2
    /\ \A i \in DOMAIN balls : balls[i].id >= 1 => ~balls[i].hasLanded

\* C28 as stated: any two consecutive spawns are more than 500 ms apart
C28_SpawnsApart ==
    [][(currentTime' # currentTime /\ lastSpawnTime' # lastSpawnTime
           /\ lastSpawnTime >= 0) =>
          lastSpawnTime' - lastSpawnTime > 500]_vars

\* C29: whatever batch size setBatchSize has stored, the active set holds at
\* most the eviction ceiling of balls after every frame.
C29_ActiveSetBounded == Len(balls) <= EvictCeiling

\* C30: every step that empties the active set, by reset or by a mode
\* switch, leaves totalBallsDropped and totalInsideBalls at 0, so that the
\* statistics of the next run start from nothing.
C30_CountersZeroedWithActiveSet ==
    [][(balls # <<>> /\ balls' = <<>>) =>
          /\ totalBallsDropped' = 0
          /\ totalInsideBalls' = 0
          /\ ComputeStats(balls', totalBallsDropped', totalInsideBalls')
                = EmptyStats]_vars

=============================================================================
